---------------------------- MODULE Spec2Model ----------------------------
(***************************************************************************)
(* A model of the three scripts of the repository:                         *)
(*   serve.py        - UltraFastHandler (do_GET / end_headers) and the     *)
(*                     socketserver.TCPServer accept loop                  *)
(*   add_deps.py     - merge of missing_deps into package.json             *)
(*   add_all_deps.py - merge of all_deps into package.json                 *)
(*                                                                         *)
(* Strings that the code takes apart (request targets, file names, the     *)
(* Accept-Encoding value) are sequences of tokens, each token standing for *)
(* the substring it spells: <<"/", "game", ".wasm", "?", "v=1">> is the    *)
(* request target /game.wasm?v=1.  Requests are HTTP/1.x requests.         *)
(***************************************************************************)
EXTENDS Integers, Sequences, FiniteSets, TLC

VARIABLES
    files,        \* serve.py: the regular files that exist on disk (absolute paths)
    pc,           \* serve.py handler: "idle" (no request) or "done" (request handled)
    request,      \* serve.py handler: the request being answered: [path, headers]
    wfile,        \* serve.py handler: what was written to the socket, in order
    opened,       \* serve.py handler: the files whose bytes were read for the body
    fault,        \* serve.py handler: an exception left do_GET
    backlog,      \* serve.py server: connections waiting in the listen queue
    active,       \* serve.py server: accepted connections not yet shut down
    progress,     \* serve.py server: per connection, how far its handling got
    accepted,     \* serve.py server: connections in the order accept() returned them
    completed,    \* serve.py server: connections in the order their responses ended
    nconn,        \* serve.py server: number of connections made so far
    manifest,     \* add_*deps.py: the content of package.json
    before,       \* add_*deps.py: package.json as it was before the last run
    runs          \* add_*deps.py: the scripts run so far, each with its outcome

vars == <<files, pc, request, wfile, opened, fault,
          backlog, active, progress, accepted, completed, nconn,
          manifest, before, runs>>

handlerVars == <<files, pc, request, wfile, opened, fault>>
serverVars == <<backlog, active, progress, accepted, completed, nconn>>
depsVars == <<manifest, before, runs>>

-----------------------------------------------------------------------------
(* Sequences of tokens *)

Last(s) == s[Len(s)]

\* str.endswith(suffix), for a suffix that is one token
endswith(s, tok) == Len(s) > 0 /\ Last(s) = tok

\* the index of the first element of s in the set toks, or Len(s) + 1
RECURSIVE FirstIn(_, _, _)
FirstIn(s, toks, i) ==
    IF i > Len(s) THEN Len(s) + 1
    ELSE IF s[i] \in toks THEN i
    ELSE FirstIn(s, toks, i + 1)

\* s.split(tok, 1)[0]
SplitHead(s, tok) == SubSeq(s, 1, FirstIn(s, {tok}, 1) - 1)

\* s.split("/"): the segments between the "/" tokens
RECURSIVE SplitSlash(_)
SplitSlash(s) ==
    LET i == FirstIn(s, {"/"}, 1) IN
    IF i > Len(s) THEN <<s>>
    ELSE <<SubSeq(s, 1, i - 1)>> \o SplitSlash(SubSeq(s, i + 1, Len(s)))


-----------------------------------------------------------------------------
(* The file system.  An absolute path is a sequence of names, a name a     *)
(* sequence of tokens: /srv/game.wasm.br is <<<<"srv">>, <<"game", ".wasm", *)
(* ".br">>>>.                                                              *)

\* os.chdir(os.path.dirname(os.path.abspath(__file__))): the server root
ServerRoot == << <<"srv">> >>

AssetsDir == ServerRoot \o << <<"assets">> >>

\* the directories, which exist throughout
Dirs == { <<>>, ServerRoot, AssetsDir }

GameWasm == ServerRoot \o << <<"game", ".wasm">> >>
GameWasmBr == ServerRoot \o << <<"game", ".wasm", ".br">> >>
GameWasmGz == ServerRoot \o << <<"game", ".wasm", ".gz">> >>
IndexHtml == ServerRoot \o << <<"index", ".html">> >>
SecretWasmInRoot == ServerRoot \o << <<"secret", ".wasm">> >>
SecretWasmBrOutside == << <<"secret", ".wasm", ".br">> >>
SecretWasmGzOutside == << <<"secret", ".wasm", ".gz">> >>

\* the regular files that may exist
FileUniverse ==
    { GameWasm, GameWasmBr, GameWasmGz, IndexHtml,
      SecretWasmInRoot, SecretWasmBrOutside, SecretWasmGzOutside }

\* the result of resolving a path one of whose components does not exist
NoEntry == << <<>> >>

Parent(dir) == IF dir = <<>> THEN <<>> ELSE SubSeq(dir, 1, Len(dir) - 1)

\* the kernel's resolution of the components segs, starting in directory cur
RECURSIVE Walk(_, _)
Walk(cur, segs) ==
    IF segs = <<>> THEN cur
    ELSE IF cur \notin Dirs THEN NoEntry
    ELSE LET s == Head(segs) IN
         IF s = <<>> \/ s = <<".">> THEN Walk(cur, Tail(segs))
         ELSE IF s = <<"..">> THEN Walk(Parent(cur), Tail(segs))
         ELSE Walk(Append(cur, s), Tail(segs))

\* the file or directory a path string names; the process's working
\* directory is the server root, and a path that starts with "/" is absolute
Resolve(p) ==
    IF Len(p) > 0 /\ p[1] = "/" THEN Walk(<<>>, SplitSlash(p))
    ELSE Walk(ServerRoot, SplitSlash(p))

\* os.path.exists(p)
exists(fs, p) == Resolve(p) \in fs \cup Dirs

\* whether open(p, 'rb') returns a file (otherwise it raises OSError)
CanOpen(fs, p) == Resolve(p) \in fs

\* whether the file or directory at absolute path abs lies under the root
UnderRoot(abs) ==
    Len(abs) >= Len(ServerRoot) /\ SubSeq(abs, 1, Len(ServerRoot)) = ServerRoot

-----------------------------------------------------------------------------
(* SimpleHTTPRequestHandler.translate_path, which super().do_GET() uses *)

\* urllib.parse.unquote on one token
UnquoteToken(tok) ==
    CASE tok = "%2E%2E" -> ".."
      [] tok = "%2F" -> "/"
      [] OTHER -> tok

unquote(p) == [i \in 1..Len(p) |-> UnquoteToken(p[i])]

\* the request target without its query and fragment
\* (path.split('?',1)[0] then path.split('#',1)[0]; urlsplit(self.path).path)
StripQuery(p) == SplitHead(SplitHead(p, "?"), "#")

\* posixpath.normpath on the components of a path; initial: it starts with "/"
RECURSIVE NormComps(_, _, _)
NormComps(comps, acc, initial) ==
    IF comps = <<>> THEN acc
    ELSE LET c == Head(comps) IN
         IF c = <<>> \/ c = <<".">> THEN NormComps(Tail(comps), acc, initial)
         ELSE IF c # <<"..">>
                 \/ (~initial /\ acc = <<>>)
                 \/ (acc # <<>> /\ Last(acc) = <<"..">>)
              THEN NormComps(Tail(comps), Append(acc, c), initial)
         ELSE IF acc # <<>>
              THEN NormComps(Tail(comps), SubSeq(acc, 1, Len(acc) - 1), initial)
         ELSE NormComps(Tail(comps), acc, initial)

\* the words translate_path keeps: not os.curdir, not os.pardir
RECURSIVE SimpleWords(_)
SimpleWords(words) ==
    IF words = <<>> THEN <<>>
    ELSE IF Head(words) \in { <<".">>, <<"..">> } THEN SimpleWords(Tail(words))
    ELSE <<Head(words)>> \o SimpleWords(Tail(words))

\* translate_path(path): the absolute path under self.directory, and whether
\* the result ends with "/"
translate_path(p) ==
    LET stripped == StripQuery(p)
        unq == unquote(stripped)
        initial == Len(unq) > 0 /\ unq[1] = "/"
        words == SimpleWords(NormComps(SplitSlash(unq), <<>>, initial))
    IN [abs |-> ServerRoot \o words, slash |-> endswith(stripped, "/")]

-----------------------------------------------------------------------------
(* What the handler writes.  wfile is a sequence of these records, in the  *)
(* order of the bytes on the socket.                                       *)

StatusLine(code) == [t |-> "status", code |-> code, k |-> "", v |-> "", src |-> <<>>]
HeaderLine(k, v) == [t |-> "header", code |-> 0, k |-> k, v |-> v, src |-> <<>>]
BlankLine == [t |-> "end", code |-> 0, k |-> "", v |-> "", src |-> <<>>]
\* the bytes of the file at absolute path src
FileBytes(src) == [t |-> "body", code |-> 0, k |-> "", v |-> "file", src |-> src]
\* bytes the server makes up: the error page, the directory listing
Generated(what) == [t |-> "body", code |-> 0, k |-> "", v |-> what, src |-> <<>>]

\* a handler in the middle of a request: the headers buffer, the socket,
\* the files read, and whether an exception was raised and not caught
NewHandler == [buf |-> <<>>, out |-> <<>>, opened |-> {}, fault |-> FALSE]

\* BaseHTTPRequestHandler.send_response: status line, Server and Date
send_response(h, code) ==
    [h EXCEPT !.buf = @ \o << StatusLine(code),
                              HeaderLine("Server", "SimpleHTTP"),
                              HeaderLine("Date", "now") >>]

\* BaseHTTPRequestHandler.send_header
send_header(h, k, v) == [h EXCEPT !.buf = Append(@, HeaderLine(k, v))]

\* BaseHTTPRequestHandler.end_headers: the blank line, then flush_headers
base_end_headers(h) ==
    [h EXCEPT !.out = @ \o h.buf \o <<BlankLine>>, !.buf = <<>>]

\* self.wfile.write(f.read()) of the file at absolute path abs
write_file(h, abs) ==
    [h EXCEPT !.out = Append(@, FileBytes(abs)), !.opened = @ \cup {abs}]

\* an exception leaves do_GET: nothing more is written
raise(h) == [h EXCEPT !.fault = TRUE]

COOP == HeaderLine("Cross-Origin-Opener-Policy", "same-origin")
COEP == HeaderLine("Cross-Origin-Embedder-Policy", "require-corp")
ImmutableCache == "public, max-age=31536000, immutable"

\* end_headers with the isolation headers sent only for .wasm targets
end_headers_wasm_only(h, path) ==
    IF endswith(path, ".wasm")
    THEN base_end_headers(send_header(send_header(send_header(h, COOP.k, COOP.v),
                                                  COEP.k, COEP.v),
                                      "Cache-Control", ImmutableCache))
    ELSE base_end_headers(h)

\* UltraFastHandler.end_headers, for the request target path
end_headers(h, path) ==
    LET h1 == send_header(h, COOP.k, COOP.v)
        h2 == send_header(h1, COEP.k, COEP.v)
        h3 == IF endswith(path, ".wasm")
              THEN send_header(h2, "Cache-Control", ImmutableCache)
              ELSE h2
    IN base_end_headers(h3)

-----------------------------------------------------------------------------
(* The request headers the handler reads *)

\* self.headers.get(name, default)
get(headers, name, default) ==
    IF name \in DOMAIN headers THEN headers[name] ELSE default

\* the needles 'br' and 'gzip' that occur in a token of a header value
Needles(tok) ==
    CASE tok = "br" -> {"br"}
      [] tok = "gzip" -> {"gzip"}
      [] tok = "x-gzip" -> {"gzip"}
      [] OTHER -> {}

\* needle in value: Python's substring test
In(needle, value) == \E i \in 1..Len(value) : needle \in Needles(value[i])

-----------------------------------------------------------------------------
(* super().do_GET(): SimpleHTTPRequestHandler.do_GET, send_head, send_error *)
(* and list_directory, with self.end_headers() dispatched to the override   *)

\* guess_type(path), by the extension of the file name; '.wasm' is
\* registered by mimetypes.add_type('application/wasm', '.wasm')
guess_type(abs) ==
    LET ext == IF abs = <<>> \/ Last(abs) = <<>> THEN "" ELSE Last(Last(abs)) IN
    CASE ext = ".wasm" -> "application/wasm"
      [] ext = ".html" -> "text/html"
      [] ext = ".gz" -> "application/gzip"
      [] OTHER -> "application/octet-stream"

\* send_error(code): the error page, with Content-Type and Content-Length
\* unless the status has no body
send_error(h, code, path) ==
    LET h1 == send_header(send_response(h, code), "Connection", "close")
        hasBody == code >= 200 /\ code \notin {204, 205, 304}
        h2 == IF hasBody
              THEN send_header(send_header(h1, "Content-Type", "text/html;charset=utf-8"),
                               "Content-Length", "size")
              ELSE h1
        h3 == end_headers(h2, path)
    IN IF hasBody THEN [h3 EXCEPT !.out = Append(@, Generated("error page"))] ELSE h3

\* whether send_head answers 304: If-Modified-Since is a well-formed date
\* not before the file's modification time (no request has If-None-Match)
NotModified(headers) ==
    "If-Modified-Since" \in DOMAIN headers /\ headers["If-Modified-Since"] = "not before mtime"

IndexOf(dir) == dir \o << <<"index", ".html">> >>

\* send_head followed by copyfile, for the request target path
super_do_GET(h, path, headers, fs) ==
    LET t == translate_path(path) IN
    IF t.abs \in Dirs /\ ~endswith(StripQuery(path), "/")
    THEN \* a directory without the trailing slash: redirect
         end_headers(send_header(send_header(send_response(h, 301),
                                             "Location", "request target + /"),
                                 "Content-Length", "0"),
                     path)
    ELSE IF t.abs \in Dirs /\ IndexOf(t.abs) \notin fs
    THEN \* list_directory
         LET h1 == send_header(send_header(send_response(h, 200),
                                           "Content-type", "text/html; charset=utf-8"),
                               "Content-Length", "size")
         IN [end_headers(h1, path) EXCEPT !.out = Append(@, Generated("listing"))]
    ELSE LET file == IF t.abs \in Dirs THEN IndexOf(t.abs) ELSE t.abs
             slash == t.abs \notin Dirs /\ t.slash
         IN IF slash \/ file \notin fs
            THEN send_error(h, 404, path)
            ELSE IF NotModified(headers)
            THEN end_headers(send_response(h, 304), path)
            ELSE LET h1 == send_header(send_response(h, 200), "Content-type", guess_type(file))
                     h2 == send_header(h1, "Content-Length", "size")
                     h3 == send_header(h2, "Last-Modified", "mtime")
                 IN write_file(end_headers(h3, path), file)

-----------------------------------------------------------------------------
(* UltraFastHandler.do_GET *)

\* '.' + self.path + suffix
Sibling(path, suffix) == <<".">> \o path \o <<suffix>>

\* self.headers.get('Accept-Encoding', '')
accept_encoding(headers) == get(headers, "Accept-Encoding", <<>>)

\* the brotli test without the existence check
BrotliSelected_header_only(path, headers, fs) == In("br", accept_encoding(headers))

\* 'br' in accept_encoding and os.path.exists('.' + brotli_path)
BrotliSelected(path, headers, fs) ==
    In("br", accept_encoding(headers)) /\ exists(fs, Sibling(path, ".br"))

\* 'gzip' in accept_encoding and os.path.exists('.' + gzip_path)
GzipSelected(path, headers, fs) ==
    In("gzip", accept_encoding(headers)) /\ exists(fs, Sibling(path, ".gz"))

\* one of the two branches that serve a precompressed sibling
serve_sibling(h, path, fs, suffix, coding) ==
    LET h1 == send_response(h, 200)
        h2 == send_header(h1, "Content-Type", "application/wasm")
        h3 == send_header(h2, "Content-Encoding", coding)
        h4 == send_header(h3, "Cache-Control", ImmutableCache)
        h5 == end_headers(h4, path)
    IN IF CanOpen(fs, Sibling(path, suffix))
       THEN write_file(h5, Resolve(Sibling(path, suffix)))
       ELSE raise(h5)

\* do_GET with the gzip branch tested before the brotli branch
do_GET_gzip_first(path, headers, fs) ==
    IF endswith(path, ".wasm") /\ GzipSelected(path, headers, fs)
    THEN serve_sibling(NewHandler, path, fs, ".gz", "gzip")
    ELSE IF endswith(path, ".wasm") /\ BrotliSelected(path, headers, fs)
    THEN serve_sibling(NewHandler, path, fs, ".br", "br")
    ELSE super_do_GET(NewHandler, path, headers, fs)

\* do_GET without the return statements that end the two sibling branches
do_GET_missing_return(path, headers, fs) ==
    IF endswith(path, ".wasm") /\ BrotliSelected(path, headers, fs)
    THEN super_do_GET(serve_sibling(NewHandler, path, fs, ".br", "br"), path, headers, fs)
    ELSE IF endswith(path, ".wasm") /\ GzipSelected(path, headers, fs)
    THEN super_do_GET(serve_sibling(NewHandler, path, fs, ".gz", "gzip"), path, headers, fs)
    ELSE super_do_GET(NewHandler, path, headers, fs)

do_GET(path, headers, fs) ==
    IF endswith(path, ".wasm") /\ BrotliSelected(path, headers, fs)
    THEN serve_sibling(NewHandler, path, fs, ".br", "br")
    ELSE IF endswith(path, ".wasm") /\ GzipSelected(path, headers, fs)
    THEN serve_sibling(NewHandler, path, fs, ".gz", "gzip")
    ELSE super_do_GET(NewHandler, path, headers, fs)

-----------------------------------------------------------------------------
(* The requests and the handler's state machine *)

\* request targets: plain, with query or fragment, directories, a trailing
\* slash after a file, ".." segments, percent-encoded ".."
RequestPaths ==
    { <<"/", "game", ".wasm">>,
      <<"/", "game", ".wasm", "?", "v=1">>,
      <<"/", "game", ".wasm", "#", "frag">>,
      <<"/", "game", ".wasm", "/">>,
      <<"/", "index", ".html">>,
      <<"/", "index", ".html", "?", "x=", ".wasm">>,
      <<"/">>,
      <<"/", "assets">>,
      <<"/", "assets", "/">>,
      <<"/", "assets", "/", "..", "/", "game", ".wasm">>,
      <<"/", "..", "/", "secret", ".wasm">>,
      <<"/", "%2E%2E", "/", "secret", ".wasm">> }

\* Accept-Encoding values: '', 'gzip', 'br', both in either order, and
\* values with neither coding or with 'gzip' inside another word
AcceptEncodings ==
    { <<>>, <<"gzip">>, <<"br">>, <<"gzip", ", ", "br">>, <<"br", ", ", "gzip">>,
      <<"deflate">>, <<"x-gzip">> }

\* If-Modified-Since values, relative to the modification time of the file
IfModifiedSinces == { "before mtime", "not before mtime", "ill-formed" }

\* the header blocks of the requests
RequestHeaders ==
    { <<>> }
    \cup { [n \in {"Accept-Encoding"} |-> ae] : ae \in AcceptEncodings }
    \cup { [n \in {"If-Modified-Since"} |-> ims] : ims \in IfModifiedSinces }
    \cup { [n \in {"Accept-Encoding", "If-Modified-Since"} |->
              IF n = "Accept-Encoding" THEN ae ELSE ims] :
           ae \in AcceptEncodings, ims \in IfModifiedSinces }

NoRequest == [path |-> <<>>, headers |-> <<>>]

\* handle_one_request for a GET: parse_request sets self.path and
\* self.headers, then do_GET runs to its end
HandleRequest(path, headers) ==
    /\ pc = "idle"
    /\ LET h == do_GET(path, headers, files) IN
       /\ wfile' = h.out
       /\ opened' = h.opened
       /\ fault' = h.fault
    /\ request' = [path |-> path, headers |-> headers]
    /\ pc' = "done"
    /\ UNCHANGED <<files, serverVars, depsVars>>

\* the connection is shut down; the next request starts from nothing
FinishRequest ==
    /\ pc = "done"
    /\ pc' = "idle"
    /\ request' = NoRequest
    /\ wfile' = <<>>
    /\ opened' = {}
    /\ fault' = FALSE
    /\ UNCHANGED <<files, serverVars, depsVars>>

ServerIdle ==
    /\ backlog = <<>>
    /\ active = {}
    /\ progress = <<>>
    /\ accepted = <<>>
    /\ completed = <<>>
    /\ nconn = 0

NoManifest == [fields |-> <<>>, hasDeps |-> FALSE, deps |-> <<>>]

DepsIdle ==
    /\ manifest = NoManifest
    /\ before = NoManifest
    /\ runs = <<>>

HandlerIdle ==
    /\ pc = "idle"
    /\ request = NoRequest
    /\ wfile = <<>>
    /\ opened = {}
    /\ fault = FALSE

Init ==
    /\ files \in SUBSET FileUniverse
    /\ HandlerIdle
    /\ ServerIdle
    /\ DepsIdle

Next ==
    \/ \E path \in RequestPaths, headers \in RequestHeaders : HandleRequest(path, headers)
    \/ FinishRequest

Spec == Init /\ [][Next]_vars

-----------------------------------------------------------------------------
(* Reading a response off the socket *)

\* header names are case-insensitive: 'Content-type' is 'Content-Type'
Canon(k) == IF k = "Content-type" THEN "Content-Type" ELSE k

Positions(w, t) == { i \in 1..Len(w) : w[i].t = t }

\* the header lines of the response's header block
HeaderBlock(w) ==
    { i \in Positions(w, "header") : \A j \in Positions(w, "end") : i < j }

HeaderValues(w, k) == { w[i].v : i \in { j \in HeaderBlock(w) : Canon(w[j].k) = k } }

HasHeader(w, k) == HeaderValues(w, k) # {}

StatusCodes(w) == { w[i].code : i \in Positions(w, "status") }

\* the bodies written after the header block
Bodies(w) ==
    { w[i] : i \in { j \in Positions(w, "body") : \E e \in Positions(w, "end") : e < j } }

\* one status line first, one blank line, every header line between the
\* two, and at most one body, after the blank line
OneResponse(w) ==
    /\ Len(w) >= 2
    /\ Positions(w, "status") = {1}
    /\ Cardinality(Positions(w, "end")) = 1
    /\ \A i \in Positions(w, "header") : \A e \in Positions(w, "end") : i < e
    /\ \A i \in Positions(w, "body") : \A e \in Positions(w, "end") : e < i
    /\ Cardinality(Positions(w, "body")) <= 1

Responded == pc = "done"

\* the file the delegated static-file serving resolves for the request
Asset == translate_path(request.path)

\* the extension of the requested asset's file name
AssetExtension ==
    IF Asset.abs = <<>> \/ Last(Asset.abs) = <<>> THEN "" ELSE Last(Last(Asset.abs))

\* the file at absolute path abs with suffix appended to its name
WithSuffix(abs, suffix) == [abs EXCEPT ![Len(abs)] = Append(@, suffix)]

RequestAE == accept_encoding(request.headers)

\* the sibling do_GET checks exists on disk
SiblingExists(suffix) == exists(files, Sibling(request.path, suffix))

\* the response is 200 with the bytes of the sibling with this suffix
ServesSibling(suffix, coding) ==
    /\ StatusCodes(wfile) = {200}
    /\ Bodies(wfile) = { FileBytes(Resolve(Sibling(request.path, suffix))) }
    /\ Resolve(Sibling(request.path, suffix)) \in files
    /\ HeaderValues(wfile, "Content-Type") = {"application/wasm"}
    /\ HeaderValues(wfile, "Content-Encoding") = {coding}

-----------------------------------------------------------------------------
\* C1: every response carries Cross-Origin-Opener-Policy: same-origin and
\* Cross-Origin-Embedder-Policy: require-corp in its header block, whatever
\* the request target, the Accept-Encoding value and the outcome.
C1_IsolationHeaders ==
    Responded =>
        /\ COOP.v \in HeaderValues(wfile, COOP.k)
        /\ COEP.v \in HeaderValues(wfile, COEP.k)

\* a delegate's not-modified response to a request for a non-.wasm target
C1_Witness ==
    /\ Responded
    /\ StatusCodes(wfile) = {304}
    /\ ~endswith(request.path, ".wasm")
    /\ COEP.v \in HeaderValues(wfile, COEP.k)

\* C2: a target ending in .wasm, both siblings on disk, Accept-Encoding with
\* both 'br' and 'gzip' in either order: 200 with the .br sibling's bytes and
\* Content-Encoding: br.
C2_BrotliPreferred ==
    ( /\ Responded
      /\ endswith(request.path, ".wasm")
      /\ SiblingExists(".br") /\ SiblingExists(".gz")
      /\ In("br", RequestAE) /\ In("gzip", RequestAE) )
    => ServesSibling(".br", "br")

\* gzip is named before br in the header, and brotli is served
C2_Witness ==
    /\ Responded
    /\ request.path = <<"/", "game", ".wasm">>
    /\ RequestAE = <<"gzip", ", ", "br">>
    /\ SiblingExists(".gz")
    /\ Bodies(wfile) = { FileBytes(GameWasmBr) }

\* C3: a target ending in .wasm, 'gzip' in Accept-Encoding and the .gz
\* sibling on disk: whenever 'br' is not in the header or the .br sibling is
\* missing, 200 with the .gz sibling's bytes, Content-Type application/wasm
\* and Content-Encoding: gzip, and no fault.
C3_GzipWhenNoBrotli ==
    ( /\ Responded
      /\ endswith(request.path, ".wasm")
      /\ In("gzip", RequestAE) /\ SiblingExists(".gz")
      /\ (~In("br", RequestAE) \/ ~SiblingExists(".br")) )
    => (ServesSibling(".gz", "gzip") /\ ~fault)

\* the header names br, the .br sibling is missing, gzip is served
C3_Witness ==
    /\ Responded
    /\ In("br", RequestAE)
    /\ ~SiblingExists(".br")
    /\ Bodies(wfile) = { FileBytes(GameWasmGz) }
    /\ HeaderValues(wfile, "Content-Encoding") = {"gzip"}

-----------------------------------------------------------------------------
\* the request is for a regular file that exists and is named *.wasm
ExistingWasmAsset ==
    /\ Asset.abs \in files
    /\ ~Asset.slash
    /\ AssetExtension = ".wasm"

\* neither precompressed sibling of the asset is on disk
NoSiblingFiles ==
    /\ WithSuffix(Asset.abs, ".br") \notin files
    /\ WithSuffix(Asset.abs, ".gz") \notin files

\* the Accept-Encoding header is absent or empty
NoAcceptEncoding ==
    "Accept-Encoding" \notin DOMAIN request.headers \/ RequestAE = <<>>

\* C4: a GET (not answered 304 for its If-Modified-Since) of an existing
\* .wasm file with no sibling files, or with an absent or empty
\* Accept-Encoding header: 200 with the asset's own bytes, Content-Type
\* application/wasm, no Content-Encoding, and the immutable Cache-Control
\* header.
C4_RawFallback ==
    ( /\ Responded
      /\ ExistingWasmAsset
      /\ ~NotModified(request.headers)
      /\ (NoSiblingFiles \/ NoAcceptEncoding) )
    => /\ StatusCodes(wfile) = {200}
       /\ Bodies(wfile) = { FileBytes(Asset.abs) }
       /\ HeaderValues(wfile, "Content-Type") = {"application/wasm"}
       /\ ~HasHeader(wfile, "Content-Encoding")
       /\ ImmutableCache \in HeaderValues(wfile, "Cache-Control")

\* nothing, neither file nor directory, exists at the requested path
Missing == Asset.abs \notin files \cup Dirs

\* C5: a GET for a path at which nothing exists under the root is answered
\* 404, without a fault, for every target, Accept-Encoding value and
\* combination of sibling files.
C5_MissingIs404 ==
    (Responded /\ Missing) => (StatusCodes(wfile) = {404} /\ ~fault)

\* the files whose bytes are the body of the response
ServedFiles == { b.src : b \in { x \in Bodies(wfile) : x.v = "file" } }

\* f is a .wasm asset, or the .br or .gz sibling of one
IsWasmRepresentation(f) ==
    LET name == Last(f) IN
    \/ endswith(name, ".wasm")
    \/ /\ Len(name) >= 2
       /\ Last(name) \in {".br", ".gz"}
       /\ name[Len(name) - 1] = ".wasm"

\* C6: a response that serves a file has Cache-Control: public,
\* max-age=31536000, immutable if and only if the file is a .wasm asset
\* (brotli, gzip or raw), also when the request target has a query string or
\* fragment after the file name; a response for any other asset has no
\* Cache-Control header.
C6_CacheControlIffWasm ==
    Responded =>
        \A f \in ServedFiles :
            /\ HasHeader(wfile, "Cache-Control") <=> IsWasmRepresentation(f)
            /\ HeaderValues(wfile, "Cache-Control") \subseteq {ImmutableCache}

\* C7 as claimed: exactly one response - one status line, one header block
\* ended once, then the body - whose headers include Content-Type, on every
\* path through do_GET.
C7_OneResponseWithContentType ==
    Responded => (OneResponse(wfile) /\ HasHeader(wfile, "Content-Type"))

\* C7 as amended: exactly one response, whose headers include Content-Type
\* on the brotli and gzip branches and on the delegate's 200 and 404
\* responses; the delegate's directory redirect (301) and not-modified (304)
\* responses have no Content-Type header and no body.
C7_OneResponseContentTypeWithBody ==
    Responded =>
        /\ OneResponse(wfile)
        /\ ~fault
        /\ HasHeader(wfile, "Content-Type") <=> (StatusCodes(wfile) \cap {301, 304} = {})
        /\ (Bodies(wfile) # {}) <=> (StatusCodes(wfile) \cap {301, 304} = {})

\* the directory redirect: one response, without Content-Type
C7_Witness ==
    /\ Responded
    /\ StatusCodes(wfile) = {301}
    /\ OneResponse(wfile)
    /\ ~HasHeader(wfile, "Content-Type")

\* C9: every file whose bytes are sent lies under the server root, and for
\* a target ending in .wasm it lies in the directory of the asset that the
\* delegated static-file serving resolves for the request.
C9_ServedFilesUnderRoot ==
    Responded =>
        \A f \in opened :
            /\ UnderRoot(f)
            /\ endswith(request.path, ".wasm") => Parent(f) = Parent(Asset.abs)

-----------------------------------------------------------------------------
(* The server: socketserver.TCPServer(("", PORT), UltraFastHandler) and     *)
(* httpd.serve_forever().  serve_forever selects on the listening socket;  *)
(* _handle_request_noblock accepts one connection (get_request), runs the  *)
(* handler on it in the same thread (process_request, finish_request) and  *)
(* closes it (shutdown_request) before it returns to the select.           *)

\* the number of connections clients make
MaxConns == 3

\* what the clients of the server model ask for
ServerRequests ==
    { [path |-> <<"/", "game", ".wasm">>, headers |-> [n \in {"Accept-Encoding"} |-> <<"br">>]],
      [path |-> <<"/", "index", ".html">>, headers |-> <<>>],
      [path |-> <<"/", "assets">>, headers |-> <<>>] }

\* the files on disk while the server model runs
ServerFiles == { GameWasm, GameWasmBr, IndexHtml }

\* the part of a response up to and including the blank line
HeadPart(w) == SubSeq(w, 1, FirstIn([i \in 1..Len(w) |-> w[i].t], {"end"}, 1))

\* the whole response to a connection's request
ResponseTo(c) == do_GET(progress[c].path, progress[c].headers, files).out

\* a thread-per-connection server: the loop selects again at once
ServerAtSelect_threaded == TRUE

\* serve_forever is back at its select: socketserver.TCPServer's
\* process_request has returned, so no accepted connection is still open
ServerAtSelect == active = {}

\* a client connects and sends its request; the kernel queues the connection
Connect(req) ==
    /\ nconn < MaxConns
    /\ nconn' = nconn + 1
    /\ backlog' = Append(backlog, nconn + 1)
    /\ progress' = Append(progress, [path |-> req.path, headers |-> req.headers,
                                     stage |-> "queued", out |-> <<>>])
    /\ UNCHANGED <<active, accepted, completed, handlerVars, depsVars>>

\* get_request: self.socket.accept() returns the oldest queued connection
get_request ==
    /\ ServerAtSelect
    /\ backlog # <<>>
    /\ LET c == Head(backlog) IN
       /\ backlog' = Tail(backlog)
       /\ active' = active \cup {c}
       /\ accepted' = Append(accepted, c)
       /\ progress' = [progress EXCEPT ![c].stage = "accepted"]
    /\ UNCHANGED <<completed, nconn, handlerVars, depsVars>>

\* the handler reads the request and writes the status line and headers
handle_head(c) ==
    /\ c \in active
    /\ progress[c].stage = "accepted"
    /\ progress' = [progress EXCEPT ![c].stage = "head", ![c].out = HeadPart(ResponseTo(c))]
    /\ UNCHANGED <<backlog, active, accepted, completed, nconn, handlerVars, depsVars>>

\* the handler writes the body, if any, and returns
handle_body(c) ==
    /\ c \in active
    /\ progress[c].stage = "head"
    /\ progress' = [progress EXCEPT ![c].stage = "written", ![c].out = ResponseTo(c)]
    /\ UNCHANGED <<backlog, active, accepted, completed, nconn, handlerVars, depsVars>>

\* shutdown_request: the connection is closed, its response complete
shutdown_request(c) ==
    /\ c \in active
    /\ progress[c].stage = "written"
    /\ active' = active \ {c}
    /\ completed' = Append(completed, c)
    /\ progress' = [progress EXCEPT ![c].stage = "closed"]
    /\ UNCHANGED <<backlog, accepted, nconn, handlerVars, depsVars>>

InitServer ==
    /\ files = ServerFiles
    /\ HandlerIdle
    /\ ServerIdle
    /\ DepsIdle

NextServer ==
    \/ \E req \in ServerRequests : Connect(req)
    \/ get_request
    \/ \E c \in active : handle_head(c)
    \/ \E c \in active : handle_body(c)
    \/ \E c \in active : shutdown_request(c)

SpecServer == InitServer /\ [][NextServer]_vars

\* C8: at every moment at most one connection is being handled; every
\* connection accepted before the latest one has had its whole response
\* written and is closed; responses complete in the order of acceptance.
C8_OneAtATime ==
    /\ Cardinality(active) <= 1
    /\ \A i \in 1..(Len(accepted) - 1) :
           /\ progress[accepted[i]].stage = "closed"
           /\ progress[accepted[i]].out = ResponseTo(accepted[i])
    /\ Len(completed) <= Len(accepted)
    /\ completed = SubSeq(accepted, 1, Len(completed))

\* a response is half written while another connection waits in the queue
\* and an earlier one is complete
C8_Witness ==
    /\ \E c \in active : progress[c].stage = "head"
    /\ backlog # <<>>
    /\ Len(completed) >= 1

-----------------------------------------------------------------------------
(* add_deps.py and add_all_deps.py.  The text of package.json is a JSON     *)
(* object: its members other than "dependencies" in order (fields), whether *)
(* it has a "dependencies" member, and that object's members in order.      *)
(* json.load turns each object into a dict: the keys in insertion order and *)
(* a value for each key.                                                    *)

\* the number of script runs
MaxRuns == 3

\* add_deps.py: missing_deps
missing_deps ==
    << <<"connect-mongo", "^4.6.0">>, <<"express", "^4.18.2">>,
       <<"express-session", "^1.17.3">>, <<"mongoose", "^7.5.0">>,
       <<"socket.io", "^4.7.2">>, <<"express-fileupload", "^1.4.0">>,
       <<"winston", "^3.10.0">>, <<"dotenv", "^16.3.1">> >>

\* add_all_deps.py: all_deps
all_deps ==
    << <<"handlebars", "^4.7.8">>, <<"@sentry/node", "^7.77.0">>,
       <<"express-fileupload", "^1.4.0">>, <<"swagger-jsdoc", "^6.2.8">>,
       <<"swagger-ui-express", "^5.0.0">>, <<"node-cron", "^3.0.2">>,
       <<"express-validator", "^7.0.1">>, <<"cookie-parser", "^1.4.6">>,
       <<"express-ejs-layouts", "^2.5.1">>, <<"method-override", "^3.0.0">>,
       <<"moment", "^2.29.4">>, <<"uuid", "^9.0.1">>, <<"axios", "^1.6.0">>,
       <<"lodash", "^4.17.21">>, <<"async", "^3.2.4">> >>

EmptyDict == [keys |-> <<>>, val |-> <<>>]

Keys(d) == { d.keys[i] : i \in 1..Len(d.keys) }

\* d[k] = v
SetItem(d, k, v) ==
    IF k \in Keys(d)
    THEN [d EXCEPT !.val = [x \in Keys(d) |-> IF x = k THEN v ELSE d.val[x]]]
    ELSE [keys |-> Append(d.keys, k),
          val |-> [x \in Keys(d) \cup {k} |-> IF x = k THEN v ELSE d.val[x]]]

\* json.load of an object given as its members in order
RECURSIVE LoadObject(_, _)
LoadObject(members, d) ==
    IF members = <<>> THEN d
    ELSE LoadObject(Tail(members), SetItem(d, Head(members)[1], Head(members)[2]))

\* json.dump of a dict: its members in insertion order
DumpObject(d) == [i \in 1..Len(d.keys) |-> <<d.keys[i], d.val[d.keys[i]]>>]

\* package = json.load(f)
Load(text) ==
    [fields |-> LoadObject(text.fields, EmptyDict),
     hasDeps |-> text.hasDeps,
     deps |-> LoadObject(text.deps, EmptyDict)]

\* json.dump(package, f, indent=2)
Dump(package) ==
    [fields |-> DumpObject(package.fields),
     hasDeps |-> package.hasDeps,
     deps |-> DumpObject(package.deps)]

\* the loop with dict.update in place of the membership test
RECURSIVE AddAll_overwrite(_, _, _)
AddAll_overwrite(deps, pairs, added) ==
    IF pairs = <<>> THEN [deps |-> deps, added |-> added]
    ELSE AddAll_overwrite(SetItem(deps, Head(pairs)[1], Head(pairs)[2]), Tail(pairs), added + 1)

\* for dep, version in pairs: if dep not in deps: deps[dep] = version
RECURSIVE AddAll(_, _, _)
AddAll(deps, pairs, added) ==
    IF pairs = <<>> THEN [deps |-> deps, added |-> added]
    ELSE LET dep == Head(pairs)[1]
             version == Head(pairs)[2]
         IN IF dep \notin Keys(deps)
            THEN AddAll(SetItem(deps, dep, version), Tail(pairs), added + 1)
            ELSE AddAll(deps, Tail(pairs), added)

\* add_deps.py, run on the current package.json
run_add_deps ==
    /\ Len(runs) < MaxRuns
    /\ LET package == Load(manifest)
           deps == IF package.hasDeps THEN package.deps ELSE EmptyDict
           merged == AddAll(deps, missing_deps, 0)
       IN manifest' = Dump([package EXCEPT !.hasDeps = TRUE, !.deps = merged.deps])
    /\ before' = manifest
    /\ runs' = Append(runs, "add_deps")
    /\ UNCHANGED <<handlerVars, serverVars>>

\* add_all_deps.py, run on the current package.json; without a
\* "dependencies" member package['dependencies'] raises KeyError and the
\* file is left as it is
run_add_all_deps ==
    /\ Len(runs) < MaxRuns
    /\ LET package == Load(manifest) IN
       IF ~package.hasDeps
       THEN manifest' = manifest
       ELSE LET merged == AddAll(package.deps, all_deps, 0) IN
            IF merged.added > 0
            THEN manifest' = Dump([package EXCEPT !.deps = merged.deps])
            ELSE manifest' = manifest
    /\ before' = manifest
    /\ runs' = Append(runs, "add_all_deps")
    /\ UNCHANGED <<handlerVars, serverVars>>

-----------------------------------------------------------------------------
(* The manifests the scripts are run on *)

\* dependency names a manifest may hold already: one of missing_deps, one of
\* both lists, one of all_deps, one of neither
DepUniverse == <<"express", "express-fileupload", "lodash", "left-pad">>

\* for each of them: not in the manifest, or in it at one of two versions
DepChoices == {"absent", "^1.0.0", "^2.0.0"}

RECURSIVE DepsFrom(_, _)
DepsFrom(choice, i) ==
    IF i > Len(DepUniverse) THEN <<>>
    ELSE (IF choice[i] = "absent" THEN <<>> ELSE << <<DepUniverse[i], choice[i]>> >>)
         \o DepsFrom(choice, i + 1)

\* the members of a manifest other than "dependencies"
FieldChoices ==
    { << <<"name", "app">> >>,
      << <<"name", "app">>, <<"version", "1.0.0">>, <<"main", "server.js">> >> }

Manifests ==
    { [fields |-> f, hasDeps |-> FALSE, deps |-> <<>>] : f \in FieldChoices }
    \cup { [fields |-> f, hasDeps |-> TRUE, deps |-> DepsFrom(choice, 1)] :
           f \in FieldChoices, choice \in [1..Len(DepUniverse) -> DepChoices] }

InitDeps ==
    /\ files = {}
    /\ HandlerIdle
    /\ ServerIdle
    /\ manifest \in Manifests
    /\ before = manifest
    /\ runs = <<>>

NextDeps ==
    \/ run_add_deps
    \/ run_add_all_deps

SpecDeps == InitDeps /\ [][NextDeps]_vars

\* the hard-coded pairs of the script run last
LastHard == IF Last(runs) = "add_deps" THEN missing_deps ELSE all_deps

HardKeys == { LastHard[i][1] : i \in 1..Len(LastHard) }

HardVersion(k) == LastHard[CHOOSE i \in 1..Len(LastHard) : LastHard[i][1] = k][2]

\* the dependencies before and after the last run
OldDeps == LoadObject(before.deps, EmptyDict)
NewDeps == LoadObject(manifest.deps, EmptyDict)

\* C10: after add_deps.py on any manifest, or add_all_deps.py on a manifest
\* with a dependencies object, dependencies is the original one plus exactly
\* the hard-coded pairs whose key it did not have; every entry it had keeps
\* its version, the other fields are unchanged, and a second run of the same
\* script changes nothing.
C10_MergeWithoutOverwrite ==
    (runs # <<>> /\ (Last(runs) = "add_deps" \/ before.hasDeps)) =>
        /\ manifest.hasDeps
        /\ Keys(NewDeps) = Keys(OldDeps) \cup HardKeys
        /\ \A k \in Keys(OldDeps) : NewDeps.val[k] = OldDeps.val[k]
        /\ \A k \in HardKeys \ Keys(OldDeps) : NewDeps.val[k] = HardVersion(k)
        /\ manifest.fields = before.fields
        /\ (Len(runs) >= 2 /\ runs[Len(runs) - 1] = Last(runs)) => manifest = before

\* add_deps.py ran on a manifest that had express at another version and no
\* mongoose: express keeps its version and mongoose is added
C10_Witness ==
    /\ runs # <<>>
    /\ Last(runs) = "add_deps"
    /\ "express" \in Keys(OldDeps)
    /\ OldDeps.val["express"] = "^1.0.0"
    /\ NewDeps.val["express"] = "^1.0.0"
    /\ "mongoose" \notin Keys(OldDeps)
    /\ "mongoose" \in Keys(NewDeps)

=============================================================================
